---- MODULE Spec2Model ----
(***************************************************************************)
(* A model of bigstats' RHist (src/hist.py): a histogram built one sample  *)
(* at a time, whose bins are the samples rounded to <decimals> places,     *)
(* with the statistics derived from it.                                    *)
(*                                                                         *)
(* Conventions of the model                                                *)
(*  - Numbers.  Samples and bin keys are fixed-point decimals with two     *)
(*    fractional digits, held as integers (104 stands for 1.04).  Floats   *)
(*    computed from them are exact rationals <<num, den>> in lowest terms, *)
(*    den > 0, in the same unit; float rounding error is not modelled, the *)
(*    IEEE special values are: a float is a record [kind, v] with kind     *)
(*    "num" (v a rational), "sqrt" (the square root of rational v), "inf"  *)
(*    (v the sign) or "nan".  The sign of zero is not modelled.            *)
(*  - Language.  The source is Python 2 (the integer indices nvalues / 2   *)
(*    of median, np.sum over the list h.values()), with numpy's default    *)
(*    error state, under which a float64/int64 division by zero warns and  *)
(*    yields inf or nan.                                                   *)
(*  - A call that raises is a return value of kind "IndexError".           *)
(***************************************************************************)
EXTENDS Integers, FiniteSets, Sequences, TLC

\* The histograms of the model: two RHist objects.
H == {1, 2}

\* decimals=1, the default of RHist.__init__; histogram 1 is built with it.
DefaultDecimals == 1

\* The <decimals> histogram 2 may be built with.
Decimals == {0, 1}

\* The data points fed to add, in hundredths: -0.50 and 0.96.
Samples == {-50, 96}

\* The <criterion> values passed to above, in hundredths.
Criteria == {0, 100}

\* At most MaxAdds calls of add are made, over both histograms.
MaxAdds == 3

\* Python's None as a return value, in the shape of the floats below.
None == [kind |-> "None", v |-> <<0, 1>>]

\* self.h_norm: None, or the mapping p that norm() stored.
NoNorm == [none |-> TRUE, p |-> <<>>]
Some(p) == [none |-> FALSE, p |-> p]

VARIABLES decimals, h, h_norm, ingested, ret

vars == <<decimals, h, h_norm, ingested, ret>>

(***************************************************************************)
(* Arithmetic                                                              *)
(***************************************************************************)
Abs(x) == IF x < 0 THEN -x ELSE x

RECURSIVE Gcd(_, _)
Gcd(a, b) == IF b = 0 THEN a ELSE Gcd(b, a % b)

\* The rational a/b (b # 0) in lowest terms with a positive denominator.
Rat(a, b) ==
    LET g == Gcd(Abs(a), Abs(b))
        s == IF b < 0 THEN -1 ELSE 1
    IN  <<(s * a) \div g, (s * b) \div g>>

RAdd(p, q) == Rat(p[1] * q[2] + q[1] * p[2], p[2] * q[2])
RMul(p, q) == Rat(p[1] * q[1], p[2] * q[2])
RSign(p) == IF p[1] < 0 THEN -1 ELSE IF p[1] = 0 THEN 0 ELSE 1

Zero == <<0, 1>>
Num(q) == [kind |-> "num", v |-> q]
Flt(i) == Num(<<i, 1>>)
NaN == [kind |-> "nan", v |-> Zero]
Inf(s) == [kind |-> "inf", v |-> <<s, 1>>]
IndexError == [kind |-> "IndexError", v |-> Zero]

\* IEEE addition, multiplication and division of floats.
FAdd(a, b) ==
    IF a.kind = "nan" \/ b.kind = "nan" THEN NaN
    ELSE IF a.kind = "inf" /\ b.kind = "inf"
         THEN IF a.v = b.v THEN a ELSE NaN
    ELSE IF a.kind = "inf" THEN a
    ELSE IF b.kind = "inf" THEN b
    ELSE Num(RAdd(a.v, b.v))

FMul(a, b) ==
    IF a.kind = "nan" \/ b.kind = "nan" THEN NaN
    ELSE IF a.kind = "inf" \/ b.kind = "inf"
         THEN IF RSign(a.v) * RSign(b.v) = 0 THEN NaN
              ELSE Inf(RSign(a.v) * RSign(b.v))
    ELSE Num(RMul(a.v, b.v))

FDiv(a, b) ==
    IF a.kind = "nan" \/ b.kind = "nan" THEN NaN
    ELSE IF a.kind = "inf"
         THEN IF b.kind = "inf" THEN NaN
              ELSE Inf(IF RSign(b.v) < 0 THEN -RSign(a.v) ELSE RSign(a.v))
    ELSE IF b.kind = "inf" THEN Num(Zero)
    ELSE IF b.v[1] = 0
         THEN IF a.v[1] = 0 THEN NaN ELSE Inf(RSign(a.v))
    ELSE Num(Rat(a.v[1] * b.v[2], a.v[2] * b.v[1]))

\* np.sqrt: the root of a rational is kept as its radicand.
FSqrt(a) ==
    IF a.kind = "nan" THEN NaN
    ELSE IF a.kind = "inf" THEN (IF a.v[1] > 0 THEN a ELSE NaN)
    ELSE IF a.v[1] < 0 THEN NaN
    ELSE [kind |-> "sqrt", v |-> a.v]

\* sqrt(p) / sqrt(q) for floats p, q given by FSqrt.
FSqrtDiv(a, b) ==
    IF a.kind = "nan" \/ b.kind = "nan" THEN NaN
    ELSE IF a.kind = "inf" THEN (IF b.kind = "inf" THEN NaN ELSE a)
    ELSE IF b.kind = "inf" THEN [kind |-> "sqrt", v |-> Zero]
    ELSE IF b.v[1] = 0
         THEN IF a.v[1] = 0 THEN NaN ELSE Inf(1)
    ELSE [kind |-> "sqrt", v |-> Rat(a.v[1] * b.v[2], a.v[2] * b.v[1])]

RECURSIVE Pow10(_)
Pow10(e) == IF e = 0 THEN 1 ELSE 10 * Pow10(e - 1)

\* np.round(x, d): x to d decimal places, halves to the even neighbour.
\* x and the result are in hundredths, so the step is 10^(2-d) hundredths.
round(x, d) ==
    LET q == Pow10(2 - d)
        f == x \div q
        r == x % q
    IN  IF 2 * r < q THEN f * q
        ELSE IF 2 * r > q THEN (f + 1) * q
        ELSE IF f % 2 = 0 THEN f * q ELSE (f + 1) * q

RECURSIVE SumOver(_, _)
\* The sum of f[k] over the keys k in S (integers).
SumOver(f, S) ==
    IF S = {} THEN 0
    ELSE LET k == CHOOSE k \in S : TRUE IN f[k] + SumOver(f, S \ {k})

RECURSIVE FSumOver(_, _)
\* The float sum of f[k] over the keys k in S, from 0.0.
FSumOver(f, S) ==
    IF S = {} THEN Num(Zero)
    ELSE LET k == CHOOSE k \in S : TRUE IN FAdd(FSumOver(f, S \ {k}), f[k])

\* The ascending list of the finite set of integers S.
RECURSIVE sorted(_)
sorted(S) ==
    IF S = {} THEN <<>>
    ELSE LET lo == CHOOSE x \in S : \A y \in S : x <= y
         IN  <<lo>> \o sorted(S \ {lo})

(***************************************************************************)
(* RHist                                                                   *)
(***************************************************************************)
\* self.h[key]: a defaultdict(int) reads a missing key as 0.
Get(hh, k) == IF k \in DOMAIN hh THEN hh[k] ELSE 0

\* add with the bin set to 1 instead of incremented: self.h[key] = 1.
add_assign(hh, x, d) ==
    LET key == round(x, d)
    IN  [k \in DOMAIN hh \cup {key} |-> IF k = key THEN 1 ELSE hh[k]]

\* add with the sign of the increment slipped: self.h[key] -= 1.
add_decr(hh, x, d) ==
    LET key == round(x, d)
    IN  [k \in DOMAIN hh \cup {key} |->
            IF k = key THEN Get(hh, k) - 1 ELSE hh[k]]

\* self.h[np.round(x, self.decimals)] += 1
add(hh, x, d) ==
    LET key == round(x, d)
    IN  [k \in DOMAIN hh \cup {key} |->
            IF k = key THEN Get(hh, k) + 1 ELSE hh[k]]

\* n(): np.sum(self.h.values())
n(hh) == SumOver(hh, DOMAIN hh)

\* norm(): a deep copy of h with every value multiplied by 1./n().
norm(hh) ==
    LET weight == FDiv(Flt(1), Flt(n(hh)))
    IN  [k \in DOMAIN hh |-> FMul(Flt(hh[k]), weight)]

\* The h_norm that mean and var read: norm() is called only when it is None.
ensure(hn, hh) == IF hn.none THEN Some(norm(hh)) ELSE hn

\* mean(): sum of p * x over the items of h_norm.
mean(hn) == FSumOver([k \in DOMAIN hn |-> FMul(hn[k], Flt(k))], DOMAIN hn)

\* var(): sum of p * (x - mean)**2 over the items of h_norm.
var(hn) ==
    LET mu == mean(hn)
        dev(k) == FAdd(Flt(k), FMul(Flt(-1), mu))
    IN  FSumOver([k \in DOMAIN hn |-> FMul(hn[k], FMul(dev(k), dev(k)))],
                 DOMAIN hn)

\* values[i] of a Python list, i >= 0 (0-based).
Index(values, i) ==
    IF i < Len(values) THEN Flt(values[i + 1]) ELSE IndexError

\* median(): over the sorted keys, with Python 2's integer division.
median(hh) ==
    LET values == sorted(DOMAIN hh)
        nvalues == Len(values)
    IN  IF nvalues % 2 = 0
        THEN LET a == Index(values, nvalues \div 2)
                 b == Index(values, (nvalues \div 2) + 1)
             IN  IF a = IndexError \/ b = IndexError THEN IndexError
                 ELSE FDiv(FAdd(a, b), Flt(2))
        ELSE Index(values, (nvalues + 1) \div 2)

\* stdev(): np.sqrt(var / (n - 1))
stdev(hn, hh) == FSqrt(FDiv(var(hn), Flt(n(hh) - 1)))

\* se(): sd / np.sqrt(n)
se(hn, hh) == FSqrtDiv(stdev(hn, hh), FSqrt(Flt(n(hh))))

\* above with a strict comparison: key > criterion.
above_strict(hh, criterion) ==
    LET keys == {k \in DOMAIN hh : k > criterion}
    IN  FDiv(Flt(SumOver(hh, keys)), Flt(n(hh)))

\* above(): the counts of the keys >= criterion, over float(n()).
above(hh, criterion) ==
    LET keys == {k \in DOMAIN hh : k >= criterion}
    IN  FDiv(Flt(SumOver(hh, keys)), Flt(n(hh)))

Max(a, b) == IF a >= b THEN a ELSE b

\* diff without the absolute value: max(val1, val2) - (val1 - val2).
diff_noabs(val1, val2) == Max(val1, val2) - (val1 - val2)

\* One entry of diffs in overlap(): max(val1, val2) - np.abs(val1 - val2).
diff(val1, val2) == Max(val1, val2) - Abs(val1 - val2)

\* overlap(): Rhist.h[key] never raises KeyError, h being a defaultdict, so
\* every key of self contributes an entry.
overlap(hh, other) ==
    LET diffs == [k \in DOMAIN hh |-> diff(hh[k], Get(other, k))]
    IN  FDiv(Flt(SumOver(diffs, DOMAIN hh)), Flt(n(hh) + n(other)))

\* Rhist.h after self.overlap(Rhist): reading Rhist.h[key] of a defaultdict
\* inserts a missing key with the value int() = 0.
touched(hh, other) ==
    [k \in DOMAIN other \cup DOMAIN hh |-> Get(other, k)]

(***************************************************************************)
(* The state machine                                                       *)
(***************************************************************************)
Empty == <<>>

Returned(op, self, arg, val) ==
    [op |-> op, self |-> self, arg |-> arg, val |-> val]

\* The number of add calls made on histogram i.
Adds(i) == SumOver(ingested[i], Samples)

\* __init__: h is an empty defaultdict, h_norm is None.
Init ==
    /\ decimals \in {d \in [H -> Decimals \cup {DefaultDecimals}] :
                        d[1] = DefaultDecimals}
    /\ h = [i \in H |-> Empty]
    /\ h_norm = [i \in H |-> NoNorm]
    /\ ingested = [i \in H |-> [x \in Samples |-> 0]]
    /\ ret = Returned("init", 0, 0, None)

Add(i, x) ==
    /\ Adds(1) + Adds(2) < MaxAdds
    /\ h' = [h EXCEPT ![i] = add(h[i], x, decimals[i])]
    /\ ingested' = [ingested EXCEPT ![i][x] = @ + 1]
    /\ ret' = Returned("add", i, x, None)
    /\ UNCHANGED <<decimals, h_norm>>

Norm(i) ==
    /\ h_norm' = [h_norm EXCEPT ![i] = Some(norm(h[i]))]
    /\ ret' = Returned("norm", i, 0, None)
    /\ UNCHANGED <<decimals, h, ingested>>

Mean(i) ==
    /\ h_norm' = [h_norm EXCEPT ![i] = ensure(h_norm[i], h[i])]
    /\ ret' = Returned("mean", i, 0, mean(h_norm'[i].p))
    /\ UNCHANGED <<decimals, h, ingested>>

Var(i) ==
    /\ h_norm' = [h_norm EXCEPT ![i] = ensure(h_norm[i], h[i])]
    /\ ret' = Returned("var", i, 0, var(h_norm'[i].p))
    /\ UNCHANGED <<decimals, h, ingested>>

Median(i) ==
    /\ ret' = Returned("median", i, 0, median(h[i]))
    /\ UNCHANGED <<decimals, h, h_norm, ingested>>

N(i) ==
    /\ ret' = Returned("n", i, 0, Flt(n(h[i])))
    /\ UNCHANGED <<decimals, h, h_norm, ingested>>

Stdev(i) ==
    /\ h_norm' = [h_norm EXCEPT ![i] = ensure(h_norm[i], h[i])]
    /\ ret' = Returned("stdev", i, 0, stdev(h_norm'[i].p, h[i]))
    /\ UNCHANGED <<decimals, h, ingested>>

Se(i) ==
    /\ h_norm' = [h_norm EXCEPT ![i] = ensure(h_norm[i], h[i])]
    /\ ret' = Returned("se", i, 0, se(h_norm'[i].p, h[i]))
    /\ UNCHANGED <<decimals, h, ingested>>

Above(i, c) ==
    /\ ret' = Returned("above", i, c, above(h[i], c))
    /\ UNCHANGED <<decimals, h, h_norm, ingested>>

Overlap(i, j) ==
    /\ h' = [h EXCEPT ![j] = touched(h[i], h[j])]
    /\ ret' = Returned("overlap", i, j, overlap(h[i], h[j]))
    /\ UNCHANGED <<decimals, h_norm, ingested>>

Next ==
    \/ \E i \in H, x \in Samples : Add(i, x)
    \/ \E i \in H : Norm(i)
    \/ \E i \in H : Mean(i)
    \/ \E i \in H : Var(i)
    \/ \E i \in H : Median(i)
    \/ \E i \in H : N(i)
    \/ \E i \in H : Stdev(i)
    \/ \E i \in H : Se(i)
    \/ \E i \in H, c \in Criteria : Above(i, c)
    \/ \E i, j \in H : Overlap(i, j)

Spec == Init /\ [][Next]_vars

(***************************************************************************)
(* Properties                                                              *)
(***************************************************************************)
\* p <= q for rationals p, q.
RLeq(p, q) == p[1] * q[2] <= q[1] * p[2]

\* Count() > 0.
Populated(i) == n(h[i]) > 0

\* The call that returned last was <op> on a histogram (not the initial state).
Called(ops) == ret.op \in ops

\* The probability mass function of the counts hh: counts[k] / Count().
Pmf(hh) == [k \in DOMAIN hh |-> FDiv(Flt(hh[k]), Flt(n(hh)))]

\* C1: the cached normalized mapping is never stale: whenever it is present
\* it holds counts[k] / Count() for every key k of counts, and a Mean() that
\* returns reflects every sample ingested so far.
C1_NormalizedNeverStale ==
    /\ \A i \in H : ~h_norm[i].none => h_norm[i].p = Pmf(h[i])
    /\ Called({"mean"}) => ret.val = mean(Pmf(h[ret.self]))

\* C2: whatever statistic and overlap calls are interleaved, Count() equals
\* the number of add calls made so far on that histogram.
C2_CountIsNumberOfAdds ==
    /\ \A i \in H : n(h[i]) = Adds(i)
    /\ Called({"n"}) => ret.val = Flt(Adds(ret.self))

\* C2's case: n() returns 2 on a histogram that was added to twice and that
\* an overlap call of the other histogram has touched.
C2_Witness ==
    /\ Called({"n"})
    /\ Adds(ret.self) = 2
    /\ \E k \in DOMAIN h[ret.self] : h[ret.self][k] = 0

\* C3: the overlap of a populated histogram with itself is 1.0.
C3_SelfOverlapIsOne ==
    (Called({"overlap"}) /\ ret.self = ret.arg /\ Populated(ret.self))
        => ret.val = Flt(1)

\* C4: overlap is symmetric: for two populated histograms, h1.overlap(h2)
\* and h2.overlap(h1) return the same value; the value a call has just
\* returned is the value the reverse call returns next.
C4_OverlapSymmetric ==
    /\ \A i, j \in H :
          (Populated(i) /\ Populated(j))
              => overlap(h[i], h[j]) = overlap(h[j], h[i])
    /\ (Called({"overlap"}) /\ Populated(ret.self) /\ Populated(ret.arg))
          => ret.val = overlap(h[ret.arg], h[ret.self])

\* C4's case: an overlap of two different populated histograms that share a
\* bin with different counts has returned 1/3.
C4_Witness ==
    /\ Called({"overlap"})
    /\ ret.self # ret.arg
    /\ Populated(1) /\ Populated(2)
    /\ \E k \in DOMAIN h[1] \cap DOMAIN h[2] :
          h[1][k] > 0 /\ h[2][k] > 0 /\ h[1][k] # h[2][k]
    /\ ret.val = Num(<<1, 3>>)

\* The median of the ascending list values of m >= 1 keys: the middle key
\* (0-based index (m-1)/2) for odd m, the average of the keys at the 0-based
\* indices m/2 - 1 and m/2 for even m.
MiddleOf(values) ==
    LET m == Len(values)
    IN  IF m % 2 = 1 THEN Flt(values[((m - 1) \div 2) + 1])
        ELSE Num(Rat(values[(m \div 2) - 1 + 1] + values[(m \div 2) + 1], 2))

\* C5: median() over m >= 1 distinct keys returns the middle key, or the
\* average of the two middle keys, and never indexes outside the key list.
C5_MedianIsMiddle ==
    (Called({"median"}) /\ DOMAIN h[ret.self] # {})
        => ret.val = MiddleOf(sorted(DOMAIN h[ret.self]))

\* C6: on a histogram nothing was added to, mean(), var(), median() and
\* above(0) raise EmptyHistogramError, and n() returns 0.
C6_EmptyFails ==
    /\ ( /\ \/ Called({"mean", "var", "median"})
            \/ Called({"above"}) /\ ret.arg = 0
         /\ Adds(ret.self) = 0 )
          => ret.val.kind = "EmptyHistogramError"
    /\ (Called({"n"}) /\ Adds(ret.self) = 0) => ret.val = Flt(0)

\* C7: stdev() and se() raise EmptyHistogramError whenever Count() <= 1;
\* they return no NaN or infinity then.
C7_StdevNeedsTwo ==
    (Called({"stdev", "se"}) /\ n(h[ret.self]) <= 1)
        => ret.val.kind = "EmptyHistogramError"

\* The thresholds C8 compares above at: at, between and beyond the keys.
Thresholds == {-50, -49, 0, 100, 101}

\* The fraction of the samples added to histogram i whose bin is >= t.
FractionOfAdds(i, t) ==
    LET hits == [x \in Samples |->
                    IF round(x, decimals[i]) >= t THEN ingested[i][x] ELSE 0]
    IN  Num(Rat(SumOver(hits, Samples), Adds(i)))

\* C8: on a populated histogram above is non-increasing in its threshold,
\* lies in [0, 1] and is the count of the samples in bins >= threshold over
\* Count().
C8_AboveMonotone ==
    /\ \A i \in H : Populated(i) =>
          LET a == [t \in Thresholds |-> above(h[i], t)]
          IN  /\ \A t \in Thresholds :
                    /\ a[t].kind = "num"
                    /\ RLeq(Zero, a[t].v) /\ RLeq(a[t].v, <<1, 1>>)
                    /\ a[t] = FractionOfAdds(i, t)
              /\ \A t1, t2 \in Thresholds :
                    t1 <= t2 => RLeq(a[t2].v, a[t1].v)
    /\ (Called({"above"}) /\ Populated(ret.self))
          => ret.val = FractionOfAdds(ret.self, ret.arg)

\* C8's case: above has returned 1/2 on a histogram holding two samples and
\* a bin touched by an overlap call.
C8_Witness ==
    /\ Called({"above"})
    /\ Adds(ret.self) = 2
    /\ \E k \in DOMAIN h[ret.self] : h[ret.self][k] = 0
    /\ ret.val = Num(<<1, 2>>)

\* C9: counts only grows: every count is >= 0, no step removes a key or
\* lowers a count, and a populated histogram stays populated.
C9_CountsOnlyGrow ==
    /\ [](\A i \in H : \A k \in DOMAIN h[i] : h[i][k] >= 0)
    /\ [][\A i \in H :
            /\ \A k \in DOMAIN h[i] :
                  k \in DOMAIN h'[i] /\ h'[i][k] >= h[i][k]
            /\ n(h[i]) > 0 => n(h'[i]) > 0]_vars

\* C9's case: a histogram holds a bin of count 2 and a bin an overlap call
\* has added, after statistics were taken from it.
C9_Witness ==
    \E i \in H :
        /\ ~h_norm[i].none
        /\ \E k \in DOMAIN h[i] : h[i][k] = 2
        /\ \E k \in DOMAIN h[i] : h[i][k] = 0

\* C10: a.overlap(b) leaves the counts of a and of b unchanged, and b.median()
\* returns the same before and after it.
C10_OverlapLeavesCounts ==
    [][ret'.op = "overlap" =>
          /\ h' = h
          /\ median(h'[ret'.arg]) = median(h[ret'.arg])]_vars

====
